---- MODULE Spec2Model ----
(***************************************************************************)
(* Restaurant menu store: the four tables of the schema, their row-level   *)
(* security policies, the has_role primitive, the updated_at triggers and  *)
(* the ON DELETE CASCADE foreign keys, together with the public pages that *)
(* read the store (Restaurants, RestaurantMenu).                           *)
(*                                                                         *)
(* A table is a function from the ids of its rows to the rows.  Only the   *)
(* columns that policies, constraints, triggers or the public queries read *)
(* are kept; result ordering (.order(...)) is presentation and a result is *)
(* kept as a set of rows.  A request addresses one row by id, as every     *)
(* handler of the admin components does (.eq("id", ...)).                  *)
(***************************************************************************)
EXTENDS Integers, FiniteSets, Sequences, TLC

VARIABLES
    restaurants,      \* public.restaurants
    menu_categories,  \* public.menu_categories
    menu_items,       \* public.menu_items
    user_roles,       \* public.user_roles
    now,              \* the store's clock, now()
    last,             \* the last request the store answered, and its answer
    listRestaurants,  \* Restaurants page: restaurants
    listLoading,      \* Restaurants page: loading
    slug,             \* RestaurantMenu page: route parameter
    pc,               \* RestaurantMenu page: position in fetchRestaurantData
    restaurant,       \* RestaurantMenu page: restaurant
    categories,       \* RestaurantMenu page: categories
    menuItems,        \* RestaurantMenu page: menuItems
    loading,          \* RestaurantMenu page: loading
    toast,            \* RestaurantMenu page: last toast shown
    admin,            \* Admin page: per signed-in user, the state of the page
                      \* and of the admin component it shows
    objects           \* storage.objects

tables == <<restaurants, menu_categories, menu_items, user_roles>>
publicVars ==
    <<listRestaurants, listLoading, slug, pc, restaurant, categories, menuItems, loading,
      toast>>
pageVars ==
    <<listRestaurants, listLoading, slug, pc, restaurant, categories, menuItems, loading,
      toast, admin>>
vars == <<restaurants, menu_categories, menu_items, user_roles, now, last,
          listRestaurants, listLoading, slug, pc, restaurant, categories, menuItems,
          loading, toast, admin, objects>>

(***************************************************************************)
(* Bounds and universes                                                    *)
(***************************************************************************)
MaxTime == 2

Null == "NULL"
Anon == "anon"
Users == {"u1", "u2"}
Callers == Users \cup {Anon}
app_role == {"admin", "manager", "user"}
RestaurantIds == {"r1", "r2"}
CategoryIds == {"c1", "c2"}
ItemIds == {"i1", "i2"}
GrantIds == {"g1", "g2"}
Slugs == {"pizza-palace", "kebab-hut"}
NoSuchSlug == "never-existed"
TableNames == {"restaurants", "menu_categories", "menu_items", "user_roles"}

DB == [restaurants |-> restaurants, menu_categories |-> menu_categories,
       menu_items |-> menu_items, user_roles |-> user_roles]

(***************************************************************************)
(* Caller identity                                                         *)
(***************************************************************************)
auth_uid(c) == IF c = Anon THEN Null ELSE c

auth_role(c) == IF c = Anon THEN "anon" ELSE "authenticated"

(***************************************************************************)
(* has_role: SECURITY DEFINER, reads user_roles without the caller's RLS   *)
(***************************************************************************)
has_role_global_only(db, _user_id, _role) ==
    \E g \in DOMAIN db.user_roles :
        /\ db.user_roles[g].user_id = _user_id
        /\ db.user_roles[g].role = _role
        /\ db.user_roles[g].restaurant_id = Null

has_role(db, _user_id, _role) ==
    \E g \in DOMAIN db.user_roles :
        /\ db.user_roles[g].user_id = _user_id
        /\ db.user_roles[g].role = _role

(***************************************************************************)
(* Row-level security                                                      *)
(***************************************************************************)
RowSecurityWithoutRestaurants == {"menu_categories", "menu_items", "user_roles"}

RowSecurityWithoutUserRoles == {"restaurants", "menu_categories", "menu_items"}

RowSecurity == {"restaurants", "menu_categories", "menu_items", "user_roles"}

Policies ==
    { [name |-> "Anyone can view active restaurants", table |-> "restaurants",
       cmd |-> "SELECT", to |-> "public"],
      [name |-> "Admins can manage restaurants", table |-> "restaurants",
       cmd |-> "ALL", to |-> "authenticated"],
      [name |-> "Anyone can view active categories", table |-> "menu_categories",
       cmd |-> "SELECT", to |-> "public"],
      [name |-> "Admins can manage categories", table |-> "menu_categories",
       cmd |-> "ALL", to |-> "authenticated"],
      [name |-> "Anyone can view available items", table |-> "menu_items",
       cmd |-> "SELECT", to |-> "public"],
      [name |-> "Admins can manage items", table |-> "menu_items",
       cmd |-> "ALL", to |-> "authenticated"],
      [name |-> "Users can only view their own roles", table |-> "user_roles",
       cmd |-> "SELECT", to |-> "authenticated"],
      [name |-> "Admins can manage all roles", table |-> "user_roles",
       cmd |-> "ALL", to |-> "authenticated"] }

ViewActiveRestaurantsAll(row) == TRUE

\* "Anyone can view active restaurants": USING (is_active = true)
ViewActiveRestaurants(row) == row.is_active = TRUE

ViewActiveCategoriesAll(row) == TRUE

\* "Anyone can view active categories": USING (is_active = true)
ViewActiveCategories(row) == row.is_active = TRUE

ViewAvailableItemsAll(row) == TRUE

\* "Anyone can view available items": USING (is_available = true)
ViewAvailableItems(row) == row.is_available = TRUE

ViewOwnRolesAll(db, c, row) == TRUE

\* "Users can only view their own roles":
\* USING (user_id = auth.uid() OR has_role(auth.uid(), 'admin'))
ViewOwnRoles(db, c, row) ==
    row.user_id = auth_uid(c) \/ has_role(db, auth_uid(c), "admin")

AdminsManageUnchecked(db, c) == TRUE

\* "Admins can manage ...": USING (has_role(auth.uid(), 'admin'))
AdminsManage(db, c) == has_role(db, auth_uid(c), "admin")

\* USING (...) of each policy
Using(p, db, c, row) ==
    CASE p.name = "Anyone can view active restaurants" -> ViewActiveRestaurants(row)
      [] p.name = "Anyone can view active categories" -> ViewActiveCategories(row)
      [] p.name = "Anyone can view available items" -> ViewAvailableItems(row)
      [] p.name = "Users can only view their own roles" -> ViewOwnRoles(db, c, row)
      [] p.cmd = "ALL" -> AdminsManage(db, c)

WithCheckAnyAuthenticated(p, db, c, row) == p.cmd = "ALL"

\* WITH CHECK (...) of each FOR ALL policy
WithCheck(p, db, c, row) == p.cmd = "ALL" /\ has_role(db, auth_uid(c), "admin")

\* the policies that apply to command cmd of caller c on table t
Permissive(c, t, cmd) ==
    { p \in Policies : /\ p.table = t
                       /\ p.cmd \in {cmd, "ALL"}
                       /\ (p.to = "public" \/ p.to = auth_role(c)) }

\* an existing row is visible to the command; with row security enabled and
\* no policy passing, it is not
RlsUsing(db, c, t, cmd, row) ==
    t \in RowSecurity => \E p \in Permissive(c, t, cmd) : Using(p, db, c, row)

\* a new row is accepted by the command
RlsCheck(db, c, t, cmd, row) ==
    t \in RowSecurity => \E p \in Permissive(c, t, cmd) : WithCheck(p, db, c, row)

(***************************************************************************)
(* Constraints, defaults, triggers, cascades                               *)
(***************************************************************************)
ConstraintsOkWithoutSlug(db, t, id, row) ==
    CASE t = "restaurants" -> TRUE
      [] t = "menu_categories" -> row.restaurant_id \in DOMAIN db.restaurants
      [] t = "menu_items" -> row.category_id \in DOMAIN db.menu_categories
      [] t = "user_roles" ->
            /\ row.restaurant_id = Null \/ row.restaurant_id \in DOMAIN db.restaurants
            /\ \A o \in DOMAIN db.user_roles \ {id} :
                  \/ row.restaurant_id = Null
                  \/ <<db.user_roles[o].user_id, db.user_roles[o].role,
                       db.user_roles[o].restaurant_id>>
                       # <<row.user_id, row.role, row.restaurant_id>>

\* UNIQUE and REFERENCES constraints of row `row` with id `id` against the
\* other rows of db.  UNIQUE(user_id, role, restaurant_id) treats NULLs as
\* distinct, so it never rejects two rows whose restaurant_id is NULL.
ConstraintsOk(db, t, id, row) ==
    CASE t = "restaurants" ->
            \A o \in DOMAIN db.restaurants \ {id} : db.restaurants[o].slug # row.slug
      [] t = "menu_categories" -> row.restaurant_id \in DOMAIN db.restaurants
      [] t = "menu_items" -> row.category_id \in DOMAIN db.menu_categories
      [] t = "user_roles" ->
            /\ row.restaurant_id = Null \/ row.restaurant_id \in DOMAIN db.restaurants
            /\ \A o \in DOMAIN db.user_roles \ {id} :
                  \/ row.restaurant_id = Null
                  \/ <<db.user_roles[o].user_id, db.user_roles[o].role,
                       db.user_roles[o].restaurant_id>>
                       # <<row.user_id, row.role, row.restaurant_id>>

\* column DEFAULTs of table t at time ts
Defaults(t, ts) ==
    CASE t = "restaurants" -> [is_active |-> TRUE, created_at |-> ts, updated_at |-> ts]
      [] t = "menu_categories" -> [is_active |-> TRUE, created_at |-> ts, updated_at |-> ts]
      [] t = "menu_items" ->
            [is_vegetarian |-> FALSE, is_vegan |-> FALSE, is_spicy |-> FALSE,
             is_available |-> TRUE, created_at |-> ts, updated_at |-> ts]
      [] t = "user_roles" -> [role |-> "user", restaurant_id |-> Null]

\* the supplied columns, the others at their defaults
WithDefaults(t, vals, ts) == vals @@ Defaults(t, ts)

PatchKeepsName(row, vals) ==
    [k \in DOMAIN row |-> IF k \in DOMAIN vals \ {"name"} THEN vals[k] ELSE row[k]]

\* the row with the supplied columns replaced
Patch(row, vals) == [k \in DOMAIN row |-> IF k \in DOMAIN vals THEN vals[k] ELSE row[k]]

UpdatedAtTriggers == {"restaurants", "menu_categories", "menu_items"}

handle_updated_at_keeps_supplied(t, new, ts) == new

\* BEFORE UPDATE ... FOR EACH ROW EXECUTE FUNCTION handle_updated_at()
handle_updated_at(t, new, ts) ==
    IF t \in UpdatedAtTriggers THEN [new EXCEPT !.updated_at = ts] ELSE new

Without(f, ids) == [k \in DOMAIN f \ ids |-> f[k]]

CascadeKeepsItems(db, t, id) ==
    CASE t = "restaurants" ->
            [db EXCEPT !.restaurants = Without(@, {id}),
                       !.menu_categories =
                           Without(@, {k \in DOMAIN @ : @[k].restaurant_id = id}),
                       !.user_roles =
                           Without(@, {g \in DOMAIN @ : @[g].restaurant_id = id})]
      [] OTHER -> [db EXCEPT ![t] = Without(@, {id})]

CascadeKeepsRoles(db, t, id) ==
    CASE t = "restaurants" ->
            LET cats == {k \in DOMAIN db.menu_categories :
                            db.menu_categories[k].restaurant_id = id}
            IN  [db EXCEPT !.restaurants = Without(@, {id}),
                           !.menu_categories = Without(@, cats),
                           !.menu_items =
                               Without(@, {i \in DOMAIN @ : @[i].category_id \in cats})]
      [] t = "menu_categories" ->
            [db EXCEPT !.menu_categories = Without(@, {id}),
                       !.menu_items = Without(@, {i \in DOMAIN @ : @[i].category_id = id})]
      [] OTHER -> [db EXCEPT ![t] = Without(@, {id})]

\* the row and, through ON DELETE CASCADE, every row that references it
Cascade(db, t, id) ==
    CASE t = "restaurants" ->
            LET cats == {k \in DOMAIN db.menu_categories :
                            db.menu_categories[k].restaurant_id = id}
            IN  [db EXCEPT !.restaurants = Without(@, {id}),
                           !.menu_categories = Without(@, cats),
                           !.menu_items =
                               Without(@, {i \in DOMAIN @ : @[i].category_id \in cats}),
                           !.user_roles =
                               Without(@, {g \in DOMAIN @ : @[g].restaurant_id = id})]
      [] t = "menu_categories" ->
            [db EXCEPT !.menu_categories = Without(@, {id}),
                       !.menu_items = Without(@, {i \in DOMAIN @ : @[i].category_id = id})]
      [] OTHER -> [db EXCEPT ![t] = Without(@, {id})]

(***************************************************************************)
(* Store requests, as functions of the database                            *)
(***************************************************************************)
Answer(status, rows, db) == [status |-> status, rows |-> rows, db |-> db]

\* select: the ids of the rows of t that c may see
Select(db, c, t) ==
    {id \in DOMAIN db[t] : RlsUsing(db, c, t, "SELECT", db[t][id])}

\* insert of one row
Insert(db, c, t, id, row) ==
    IF ~RlsCheck(db, c, t, "INSERT", row) THEN Answer("rls_error", {}, db)
    ELSE IF ~ConstraintsOk(db, t, id, row) THEN Answer("constraint_error", {}, db)
    ELSE Answer("ok", {id}, [db EXCEPT ![t] = (id :> row) @@ @])

\* update ... where id = id
Update(db, c, t, id, vals, ts) ==
    IF \/ id \notin DOMAIN db[t]
       \/ ~RlsUsing(db, c, t, "UPDATE", db[t][id])
       \/ ~RlsUsing(db, c, t, "SELECT", db[t][id])
    THEN Answer("ok", {}, db)
    ELSE LET new == handle_updated_at(t, Patch(db[t][id], vals), ts)
         IN  IF ~RlsCheck(db, c, t, "UPDATE", new) THEN Answer("rls_error", {}, db)
             ELSE IF ~ConstraintsOk(db, t, id, new)
                  THEN Answer("constraint_error", {}, db)
                  ELSE Answer("ok", {id}, [db EXCEPT ![t][id] = new])

\* delete ... where id = id
Delete(db, c, t, id) ==
    IF \/ id \notin DOMAIN db[t]
       \/ ~RlsUsing(db, c, t, "DELETE", db[t][id])
       \/ ~RlsUsing(db, c, t, "SELECT", db[t][id])
    THEN Answer("ok", {}, db)
    ELSE Answer("ok", {id}, Cascade(db, t, id))

(***************************************************************************)
(* Requests as actions: the store answers, the tables change, and `last`   *)
(* records the request and its answer                                      *)
(***************************************************************************)
\* a request that supplies no column
NoVals == [none |-> TRUE]

NoRequest ==
    [op |-> "none", table |-> Null, caller |-> Anon, id |-> Null, vals |-> NoVals,
     status |-> "ok", rows |-> {}, gone |-> {}]

\* the ids of all rows of db
RowIds(db) ==
    DOMAIN db.restaurants \cup DOMAIN db.menu_categories
    \cup DOMAIN db.menu_items \cup DOMAIN db.user_roles

Answered(op, c, t, id, vals, ans) ==
    /\ restaurants' = ans.db.restaurants
    /\ menu_categories' = ans.db.menu_categories
    /\ menu_items' = ans.db.menu_items
    /\ user_roles' = ans.db.user_roles
    /\ last' = [op |-> op, table |-> t, caller |-> c, id |-> id, vals |-> vals,
                status |-> ans.status, rows |-> ans.rows,
                gone |-> RowIds(DB) \ RowIds(ans.db)]
    /\ UNCHANGED <<now, objects>>

\* supabase.from(t).select("*") issued by caller c
StoreSelect(c, t) ==
    /\ Answered("select", c, t, Null, NoVals, Answer("ok", Select(DB, c, t), DB))
    /\ UNCHANGED pageVars

\* supabase.from(t).insert([vals]); the id is a fresh gen_random_uuid()
StoreInsert(c, t, id, vals) ==
    /\ id \notin DOMAIN DB[t]
    /\ Answered("insert", c, t, id, vals, Insert(DB, c, t, id, WithDefaults(t, vals, now)))
    /\ UNCHANGED pageVars

\* supabase.from(t).update(vals).eq("id", id)
StoreUpdate(c, t, id, vals) ==
    /\ Answered("update", c, t, id, vals, Update(DB, c, t, id, vals, now))
    /\ UNCHANGED pageVars

\* supabase.from(t).delete().eq("id", id)
StoreDelete(c, t, id) ==
    /\ Answered("delete", c, t, id, NoVals, Delete(DB, c, t, id))
    /\ UNCHANGED pageVars

\* time passes
Tick ==
    /\ now < MaxTime
    /\ now' = now + 1
    /\ last' = NoRequest
    /\ UNCHANGED <<tables, pageVars, objects>>

(***************************************************************************)
(* Initial states                                                          *)
(***************************************************************************)
\* no toast shown by the Admin page yet
NoToast == [kind |-> "none", text |-> ""]

\* editingRestaurant / editingCategory / editingItem when it is null
NoRow == [id |-> Null]

\* the Admin page of a user before it is opened: isAdmin false, no admin
\* component mounted (Admin.tsx renders null)
\* no file chosen in the file input, and no upload started
NoFile == [name |-> "", type |-> "", size |-> 0]

NoUpload == [file |-> NoFile, formData |-> NoVals]

SignedOut ==
    [isAdmin |-> FALSE, loading |-> TRUE, tab |-> Null, tabLoading |-> TRUE,
     pc |-> "closed", list |-> {},
     selectedRestaurant |-> "", categories |-> {}, inflight |-> {},
     editing |-> NoRow, formData |-> NoVals, dialogOpen |-> FALSE, toast |-> NoToast,
     uploading |-> FALSE, upload |-> NoUpload]

PageInit ==
    /\ listRestaurants = {}
    /\ listLoading = TRUE
    /\ slug = NoSuchSlug
    /\ pc = "idle"
    /\ restaurant = Null
    /\ categories = {}
    /\ menuItems = {}
    /\ loading = TRUE
    /\ toast = Null
    /\ admin = [u \in Users |-> SignedOut]

\* the tables after the migrations, with the first admin grant in place
Init ==
    /\ restaurants = << >>
    /\ menu_categories = << >>
    /\ menu_items = << >>
    /\ user_roles = ("g1" :> [user_id |-> "u1", role |-> "admin", restaurant_id |-> Null])
    /\ now = 0
    /\ last = NoRequest
    /\ objects = << >>
    /\ PageInit

\* requests: each names the row it addresses and the columns it supplies
Req(ids, valss) == {[id |-> i, vals |-> v] : i \in ids, v \in valss}

(***************************************************************************)
(* Spec: access control.  Every caller, admin or not, issues every kind of *)
(* request on every table, directly against the store.                     *)
(***************************************************************************)
RestaurantInserts ==
    { [id |-> "r1", vals |-> [slug |-> "pizza-palace"]],
      [id |-> "r2", vals |-> [slug |-> "kebab-hut"]] }

RestaurantUpdates == Req(RestaurantIds, {[is_active |-> b] : b \in BOOLEAN})

CategoryInserts == Req({"c1"}, {[restaurant_id |-> "r1"]})

CategoryUpdates == Req({"c1"}, {[is_active |-> b] : b \in BOOLEAN})

ItemInserts == Req({"i1"}, {[category_id |-> "c1"]})

ItemUpdates == Req({"i1"}, {[is_available |-> b] : b \in BOOLEAN})

RoleInserts ==
    Req({"g2"}, { [user_id |-> "u1", role |-> "admin", restaurant_id |-> "r1"],
               [user_id |-> "u2", role |-> "admin"],
               [user_id |-> "u2", role |-> "manager", restaurant_id |-> "r2"],
               [user_id |-> "u2"] })

RoleUpdates == Req(GrantIds, {[role |-> "user"]})

SelectRows == \E c \in Callers, t \in TableNames : StoreSelect(c, t)

InsertRestaurant ==
    \E c \in Callers, r \in RestaurantInserts : StoreInsert(c, "restaurants", r.id, r.vals)

UpdateRestaurant ==
    \E c \in Callers, r \in RestaurantUpdates : StoreUpdate(c, "restaurants", r.id, r.vals)

DeleteRestaurant ==
    \E c \in Callers, id \in RestaurantIds : StoreDelete(c, "restaurants", id)

InsertCategory ==
    \E c \in Callers, r \in CategoryInserts : StoreInsert(c, "menu_categories", r.id, r.vals)

UpdateCategory ==
    \E c \in Callers, r \in CategoryUpdates : StoreUpdate(c, "menu_categories", r.id, r.vals)

DeleteCategory ==
    \E c \in Callers, id \in {"c1"} : StoreDelete(c, "menu_categories", id)

InsertItem ==
    \E c \in Callers, r \in ItemInserts : StoreInsert(c, "menu_items", r.id, r.vals)

UpdateItem ==
    \E c \in Callers, r \in ItemUpdates : StoreUpdate(c, "menu_items", r.id, r.vals)

DeleteItem ==
    \E c \in Callers, id \in {"i1"} : StoreDelete(c, "menu_items", id)

InsertRole ==
    \E c \in Callers, r \in RoleInserts : StoreInsert(c, "user_roles", r.id, r.vals)

UpdateRole ==
    \E c \in Callers, r \in RoleUpdates : StoreUpdate(c, "user_roles", r.id, r.vals)

DeleteRole ==
    \E c \in Callers, id \in GrantIds : StoreDelete(c, "user_roles", id)

Next ==
    \/ SelectRows
    \/ InsertRestaurant \/ UpdateRestaurant \/ DeleteRestaurant
    \/ InsertCategory \/ UpdateCategory \/ DeleteCategory
    \/ InsertItem \/ UpdateItem \/ DeleteItem
    \/ InsertRole \/ UpdateRole \/ DeleteRole

Spec == Init /\ [][Next]_vars

(***************************************************************************)
(* SpecCascade: an admin builds and deletes the containment hierarchy;     *)
(* inserts and re-parenting updates may name a parent that does not exist. *)
(***************************************************************************)
CascadeCallers == {"u1", Anon}

CascadeCategoryInserts == Req(CategoryIds, {[restaurant_id |-> r] : r \in RestaurantIds})

CascadeItemInserts == Req(ItemIds, {[category_id |-> k] : k \in CategoryIds})

CascadeRoleInserts ==
    Req({"g2"}, {[user_id |-> "u2", role |-> "manager", restaurant_id |-> r] :
                    r \in RestaurantIds})

CascadeInsert ==
    \E c \in CascadeCallers :
        \/ \E r \in RestaurantInserts : StoreInsert(c, "restaurants", r.id, r.vals)
        \/ \E r \in CascadeCategoryInserts :
              StoreInsert(c, "menu_categories", r.id, r.vals)
        \/ \E r \in CascadeItemInserts : StoreInsert(c, "menu_items", r.id, r.vals)
        \/ \E r \in CascadeRoleInserts : StoreInsert(c, "user_roles", r.id, r.vals)

\* re-parenting: a category moved to another restaurant, an item to another category
CascadeUpdate ==
    \E c \in CascadeCallers :
        \/ \E r \in CascadeCategoryInserts :
              StoreUpdate(c, "menu_categories", r.id, r.vals)
        \/ \E r \in CascadeItemInserts : StoreUpdate(c, "menu_items", r.id, r.vals)

CascadeDelete ==
    \E c \in CascadeCallers :
        \/ \E id \in RestaurantIds : StoreDelete(c, "restaurants", id)
        \/ \E id \in CategoryIds : StoreDelete(c, "menu_categories", id)
        \/ \E id \in ItemIds : StoreDelete(c, "menu_items", id)

NextCascade == CascadeInsert \/ CascadeUpdate \/ CascadeDelete

SpecCascade == Init /\ [][NextCascade]_vars

(***************************************************************************)
(* The public pages: their queries as functions of the database, and the   *)
(* steps of their handlers                                                 *)
(***************************************************************************)
\* the public pages are read without signing in
Visitor == Anon

\* a row as a select("*") returns it
RowOf(db, t, id) == [id |-> id] @@ db[t][id]

\* from("restaurants").select("*").eq("is_active", true)
ActiveRestaurants(db, c) ==
    {RowOf(db, "restaurants", id) :
        id \in {i \in Select(db, c, "restaurants") : db.restaurants[i].is_active = TRUE}}

\* ... .eq("slug", slug).eq("is_active", true)
RestaurantsBySlug(db, c, s) == {r \in ActiveRestaurants(db, c) : r.slug = s}

\* .single(): the one row, or an error when there is none or more than one
Single(rows) ==
    IF Cardinality(rows) = 1
    THEN [error |-> FALSE, data |-> CHOOSE r \in rows : TRUE]
    ELSE [error |-> TRUE, data |-> Null]

\* from("menu_categories").select("*").eq("restaurant_id", rid).eq("is_active", true)
ActiveCategoriesOf(db, c, rid) ==
    {RowOf(db, "menu_categories", id) :
        id \in {k \in Select(db, c, "menu_categories") :
                   /\ db.menu_categories[k].restaurant_id = rid
                   /\ db.menu_categories[k].is_active = TRUE}}

\* from("menu_items").select("*").in("category_id", cids).eq("is_available", true)
AvailableItemsIn(db, c, cids) ==
    {RowOf(db, "menu_items", id) :
        id \in {i \in Select(db, c, "menu_items") :
                   /\ db.menu_items[i].category_id \in cids
                   /\ db.menu_items[i].is_available = TRUE}}

Ids(rows) == {r.id : r \in rows}

\* Restaurants page: useEffect -> fetchRestaurants
ListFetch ==
    /\ listRestaurants' = ActiveRestaurants(DB, Visitor)
    /\ listLoading' = FALSE
    /\ Answered("select", Visitor, "restaurants", Null, NoVals,
                Answer("ok", Ids(ActiveRestaurants(DB, Visitor)), DB))
    /\ UNCHANGED <<slug, pc, restaurant, categories, menuItems, loading, toast, admin>>

\* RestaurantMenu page mounted for route /:slug; useEffect starts fetchRestaurantData
OpenMenu(s) ==
    /\ pc \in {"idle", "done"}
    /\ slug' = s
    /\ pc' = "restaurant"
    /\ restaurant' = Null
    /\ categories' = {}
    /\ menuItems' = {}
    /\ loading' = TRUE
    /\ toast' = Null
    /\ UNCHANGED <<tables, now, last, listRestaurants, listLoading, admin, objects>>

\* fetchRestaurantData: the restaurant request; an error is caught, toasted,
\* and ends the routine with restaurant still null
FetchRestaurant ==
    /\ pc = "restaurant"
    /\ LET found == RestaurantsBySlug(DB, Visitor, slug)
           res == Single(found)
       IN  /\ Answered("select", Visitor, "restaurants", Null, NoVals,
                       Answer(IF res.error THEN "not_single" ELSE "ok",
                              IF res.error THEN {} ELSE Ids(found), DB))
           /\ IF res.error
              THEN /\ toast' = "Failed to load menu"
                   /\ loading' = FALSE
                   /\ pc' = "done"
                   /\ UNCHANGED restaurant
              ELSE /\ restaurant' = res.data
                   /\ pc' = "categories"
                   /\ UNCHANGED <<toast, loading>>
    /\ UNCHANGED <<listRestaurants, listLoading, slug, categories, menuItems, admin>>

\* fetchRestaurantData: the categories request
FetchCategories ==
    /\ pc = "categories"
    /\ categories' = ActiveCategoriesOf(DB, Visitor, restaurant.id)
    /\ Answered("select", Visitor, "menu_categories", Null, NoVals,
                Answer("ok", Ids(ActiveCategoriesOf(DB, Visitor, restaurant.id)), DB))
    /\ pc' = "items"
    /\ UNCHANGED <<listRestaurants, listLoading, slug, restaurant, menuItems, loading, toast,
                   admin>>

FetchItemsKeepsLoading ==
    /\ pc = "items"
    /\ menuItems' = AvailableItemsIn(DB, Visitor, Ids(categories))
    /\ Answered("select", Visitor, "menu_items", Null, NoVals,
                Answer("ok", Ids(AvailableItemsIn(DB, Visitor, Ids(categories))), DB))
    /\ pc' = "done"
    /\ UNCHANGED <<listRestaurants, listLoading, slug, restaurant, categories, loading,
                   toast, admin>>

\* fetchRestaurantData: the items request, then finally setLoading(false)
FetchItems ==
    /\ pc = "items"
    /\ menuItems' = AvailableItemsIn(DB, Visitor, Ids(categories))
    /\ Answered("select", Visitor, "menu_items", Null, NoVals,
                Answer("ok", Ids(AvailableItemsIn(DB, Visitor, Ids(categories))), DB))
    /\ loading' = FALSE
    /\ pc' = "done"
    /\ UNCHANGED <<listRestaurants, listLoading, slug, restaurant, categories, toast, admin>>

\* what the RestaurantMenu page renders
View ==
    IF loading THEN "skeleton"
    ELSE IF restaurant = Null THEN "Restaurant not found"
    ELSE "menu"

(***************************************************************************)
(* SpecPublic: an admin edits the store while anonymous visitors read it,  *)
(* through the pages and directly.                                         *)
(***************************************************************************)
PublicItemInserts == Req(ItemIds, {[category_id |-> "c1"]})

PublicItemUpdates == Req(ItemIds, {[is_available |-> b] : b \in BOOLEAN})

AdminInsert ==
    \/ \E r \in RestaurantInserts : StoreInsert("u1", "restaurants", r.id, r.vals)
    \/ \E r \in CategoryInserts : StoreInsert("u1", "menu_categories", r.id, r.vals)
    \/ \E r \in PublicItemInserts : StoreInsert("u1", "menu_items", r.id, r.vals)

AdminUpdate ==
    \/ \E r \in RestaurantUpdates : StoreUpdate("u1", "restaurants", r.id, r.vals)
    \/ \E r \in CategoryUpdates : StoreUpdate("u1", "menu_categories", r.id, r.vals)
    \/ \E r \in PublicItemUpdates : StoreUpdate("u1", "menu_items", r.id, r.vals)

AdminDelete ==
    \/ \E id \in RestaurantIds : StoreDelete("u1", "restaurants", id)
    \/ \E id \in ItemIds : StoreDelete("u1", "menu_items", id)

AnonSelect ==
    \E t \in {"restaurants", "menu_categories", "menu_items"} : StoreSelect(Anon, t)

NextPublic ==
    \/ AdminInsert \/ AdminUpdate \/ AdminDelete
    \/ AnonSelect
    \/ ListFetch
    \/ \E s \in Slugs \cup {NoSuchSlug} : OpenMenu(s)
    \/ FetchRestaurant \/ FetchCategories \/ FetchItems

SpecPublic == Init /\ [][NextPublic]_vars

(***************************************************************************)
(* SpecTime: the clock advances while an admin inserts and updates rows,   *)
(* supplying timestamp columns of its own in some requests.                *)
(***************************************************************************)
Times == 0 .. MaxTime

\* one restaurant with one category, both created by the admin at time 0
InitTime ==
    /\ restaurants =
          ("r1" :> WithDefaults("restaurants", [slug |-> "pizza-palace"], 0))
    /\ menu_categories =
          ("c1" :> WithDefaults("menu_categories", [restaurant_id |-> "r1"], 0))
    /\ menu_items = << >>
    /\ user_roles = ("g1" :> [user_id |-> "u1", role |-> "admin", restaurant_id |-> Null])
    /\ now = 0
    /\ last = NoRequest
    /\ objects = << >>
    /\ PageInit

TimeItemInserts ==
    Req({"i1"}, {[category_id |-> "c1"]}
                \cup {[category_id |-> "c1", updated_at |-> t] : t \in Times})

TimeInsert == \E r \in TimeItemInserts : StoreInsert("u1", "menu_items", r.id, r.vals)

TimeUpdate ==
    \/ \E v \in {[is_active |-> FALSE]} \cup {[updated_at |-> t] : t \in Times} :
          \/ StoreUpdate("u1", "restaurants", "r1", v)
          \/ StoreUpdate("u1", "menu_categories", "c1", v)
    \/ \E v \in {[is_available |-> FALSE]} \cup {[updated_at |-> t] : t \in Times} :
          StoreUpdate("u1", "menu_items", "i1", v)

TimeDelete == StoreDelete("u1", "menu_items", "i1")

NextTime == Tick \/ TimeInsert \/ TimeUpdate \/ TimeDelete

SpecTime == InitTime /\ [][NextTime]_vars

(***************************************************************************)
(* Properties of access control                                            *)
(***************************************************************************)
Writes == {"insert", "update", "delete"}

HoldsAdminGrant(c) ==
    \E g \in DOMAIN user_roles :
        user_roles[g].user_id = c /\ user_roles[g].role = "admin"

\* C1: a write (insert, update, delete) on any of the four tables by a caller
\* who holds no admin grant when the request is made -- anonymous, or
\* authenticated with only user/manager grants or none -- is not applied: an
\* insert is refused with a row-security error, an update or delete touches
\* no row, and every table is left as it was.  The requests are made directly
\* against the store, with no page gate in front of them.
C1_NonAdminWritesRejected ==
    [][ \A c \in Callers :
          (/\ ~HoldsAdminGrant(c)
           /\ last'.caller = c
           /\ last'.op \in Writes)
          => /\ tables' = tables
             /\ last'.rows = {}
             /\ (last'.op = "insert" => last'.status = "rls_error") ]_vars

C1_Witness ==
    /\ last.op = "delete"
    /\ last.table = "restaurants"
    /\ last.caller = "u2"
    /\ \E g \in DOMAIN user_roles :
          user_roles[g].user_id = "u2" /\ user_roles[g].role = "manager"
    /\ ~HoldsAdminGrant("u2")
    /\ last.id \in DOMAIN restaurants
    /\ last.rows = {}

\* C4: a select on user_roles returns exactly the rows whose user_id is the
\* caller's id, together with every row when the caller holds an admin grant;
\* a caller with only a user role reads exactly their own rows, and an
\* anonymous caller reads none.
C4_UserRolesSelect ==
    (last.op = "select" /\ last.table = "user_roles")
    => /\ last.rows = { g \in DOMAIN user_roles :
                          \/ user_roles[g].user_id = auth_uid(last.caller)
                          \/ HoldsAdminGrant(last.caller) }
       /\ (last.caller = Anon => last.rows = {})
       /\ (/\ last.caller \in Users
           /\ \A g \in DOMAIN user_roles :
                 user_roles[g].user_id = last.caller => user_roles[g].role = "user")
          => last.rows = {g \in DOMAIN user_roles : user_roles[g].user_id = last.caller}

C4_Witness ==
    /\ last.op = "select"
    /\ last.table = "user_roles"
    /\ last.caller = "u2"
    /\ ~HoldsAdminGrant("u2")
    /\ last.rows # {}
    /\ last.rows # DOMAIN user_roles
    /\ \A g \in last.rows : user_roles[g].user_id = "u2" /\ user_roles[g].role = "user"

\* the caller's admin grants are all scoped to restaurant a, and there is one
ScopedAdminOnly(c, a) ==
    /\ \E g \in DOMAIN user_roles :
          /\ user_roles[g].user_id = c
          /\ user_roles[g].role = "admin"
          /\ user_roles[g].restaurant_id = a
    /\ \A g \in DOMAIN user_roles :
          (user_roles[g].user_id = c /\ user_roles[g].role = "admin")
          => user_roles[g].restaurant_id = a

\* C6: has_role ignores the grant's restaurant scope: it is true exactly when
\* some user_roles row has the user and the role.  So a caller whose only admin
\* grant is scoped to restaurant a is authorized for writes on any other
\* restaurant and on user_roles: no such write is refused by row security,
\* and an update or delete of an existing row reaches it.
C6_ScopeIgnored ==
    /\ [](\A u \in Users, r \in app_role :
            has_role(DB, u, r)
            <=> \E g \in DOMAIN user_roles, sc \in RestaurantIds \cup {Null} :
                   user_roles[g] = [user_id |-> u, role |-> r, restaurant_id |-> sc])
    /\ [][ \A c \in Users, a \in RestaurantIds :
             (/\ ScopedAdminOnly(c, a)
              /\ last'.caller = c
              /\ last'.op \in Writes
              /\ \/ last'.table = "user_roles"
                 \/ last'.table = "restaurants" /\ last'.id # a)
             => /\ last'.status # "rls_error"
                /\ (last'.op = "delete" /\ last'.id \in DOMAIN DB[last'.table])
                   => last'.rows = {last'.id}
                /\ (/\ last'.op = "update"
                    /\ last'.id \in DOMAIN DB[last'.table]
                    /\ last'.status = "ok")
                   => last'.rows = {last'.id} ]_vars

C6_Witness ==
    /\ ScopedAdminOnly("u1", "r1")
    /\ last.caller = "u1"
    /\ last.op = "delete"
    /\ last.table = "restaurants"
    /\ last.id = "r2"
    /\ last.rows = {"r2"}
    /\ "r2" \notin DOMAIN restaurants

\* some declared policy allows command cmd of caller c on the row
AllowRuleMatches(db, c, t, cmd, row) ==
    \E p \in Policies :
        /\ p.table = t
        /\ p.cmd \in {cmd, "ALL"}
        /\ (p.to = "authenticated" => c # Anon)
        /\ IF cmd \in {"SELECT", "DELETE", "UPDATE"}
           THEN Using(p, db, c, row)
           ELSE WithCheck(p, db, c, row)

CategoriesOf(r) == {k \in DOMAIN menu_categories : menu_categories[k].restaurant_id = r}

ItemsOf(k) == {i \in DOMAIN menu_items : menu_items[i].category_id = k}

\* C5: in every state every menu_categories row references an existing
\* restaurant and every menu_items row an existing category; the step that
\* deletes a restaurant removes with it exactly its categories and their
\* items (and the grants scoped to it), and the step that deletes a category
\* removes exactly its items -- no state in between exists.
C5_CascadeAtomic ==
    /\ [](/\ \A k \in DOMAIN menu_categories :
                menu_categories[k].restaurant_id \in DOMAIN restaurants
          /\ \A i \in DOMAIN menu_items :
                menu_items[i].category_id \in DOMAIN menu_categories)
    /\ [][ /\ (last'.op = "delete" /\ last'.table = "restaurants" /\ last'.rows # {})
              => LET cats == CategoriesOf(last'.id)
                     items == UNION {ItemsOf(k) : k \in cats}
                 IN  /\ DOMAIN restaurants' = DOMAIN restaurants \ {last'.id}
                     /\ DOMAIN menu_categories' = DOMAIN menu_categories \ cats
                     /\ DOMAIN menu_items' = DOMAIN menu_items \ items
           /\ (last'.op = "delete" /\ last'.table = "menu_categories" /\ last'.rows # {})
              => /\ DOMAIN menu_categories' = DOMAIN menu_categories \ {last'.id}
                 /\ DOMAIN menu_items' = DOMAIN menu_items \ ItemsOf(last'.id)
                 /\ restaurants' = restaurants ]_vars

C5_Witness ==
    /\ last.op = "delete"
    /\ last.table = "restaurants"
    /\ last.rows = {"r1"}
    /\ last.gone = {"r1", "c1", "c2", "i1", "i2"}
    /\ DOMAIN restaurants = {"r2"}
    /\ DOMAIN menu_categories = {}
    /\ DOMAIN menu_items = {}

(***************************************************************************)
(* Properties of the public reads                                          *)
(***************************************************************************)
\* C2: an anonymous read of the restaurant list never includes a restaurant
\* whose is_active is false: neither the list the Restaurants page holds nor
\* the answer to an anonymous select on restaurants made without any filter.
C2_ListHidesInactive ==
    /\ \A r \in listRestaurants : r.is_active = TRUE
    /\ (last.op = "select" /\ last.table = "restaurants" /\ last.caller = Anon)
       => \A id \in last.rows : restaurants[id].is_active = TRUE

C2_Witness ==
    /\ last.op = "select"
    /\ last.table = "restaurants"
    /\ last.caller = Anon
    /\ last.rows # {}
    /\ Ids(listRestaurants) = last.rows
    /\ \E id \in DOMAIN restaurants : ~restaurants[id].is_active /\ id \notin last.rows

\* C3: an anonymous menu fetch never returns a menu item whose is_available
\* is false, even in an active category.  The categories request returns the
\* restaurant's active categories whatever their items are, and the items
\* request returns exactly the available items of those categories: an item
\* set unavailable is left out and its category stays, with no item at all
\* if it had no other.
C3_UnavailableItemsHidden ==
    /\ [](/\ \A m \in menuItems : m.is_available = TRUE
          /\ (last.op = "select" /\ last.table = "menu_items" /\ last.caller = Anon)
             => \A id \in last.rows : menu_items[id].is_available = TRUE)
    /\ [][ /\ (pc = "categories" /\ pc' = "items")
              => Ids(categories') =
                   {k \in DOMAIN menu_categories :
                       /\ menu_categories[k].restaurant_id = restaurant.id
                       /\ menu_categories[k].is_active = TRUE}
           /\ (pc = "items" /\ pc' = "done")
              => /\ categories' = categories
                 /\ Ids(menuItems') =
                      {i \in DOMAIN menu_items :
                          /\ menu_items[i].category_id \in Ids(categories)
                          /\ menu_items[i].is_available = TRUE} ]_vars

C3_Witness ==
    /\ pc = "done"
    /\ last.op = "select"
    /\ last.table = "menu_items"
    /\ Ids(categories) = {"c1"}
    /\ "c1" \in DOMAIN menu_categories
    /\ menu_categories["c1"].is_active = TRUE
    /\ "i1" \in DOMAIN menu_items
    /\ menu_items["i1"].category_id = "c1"
    /\ menu_items["i1"].is_available = FALSE
    /\ menuItems = {}

\* C10: for an anonymous caller a slug of an existing but inactive restaurant
\* is answered exactly as a slug no restaurant has: the select by slug returns
\* no row in both cases, and a menu fetch for any slug that no active
\* restaurant has ends in the same outcome -- restaurant null, no categories,
\* no items, the toast "Failed to load menu", the view "Restaurant not found".
C10_InactiveLooksMissing ==
    /\ [](\A id \in DOMAIN restaurants :
            restaurants[id].is_active = FALSE
            => /\ {i \in Select(DB, Anon, "restaurants") :
                      restaurants[i].slug = restaurants[id].slug}
                  = {i \in Select(DB, Anon, "restaurants") :
                        restaurants[i].slug = NoSuchSlug}
               /\ Single(RestaurantsBySlug(DB, Anon, restaurants[id].slug))
                  = Single(RestaurantsBySlug(DB, Anon, NoSuchSlug)))
    /\ [][ (/\ pc = "restaurant"
            /\ pc' # "restaurant"
            /\ ~\E id \in DOMAIN restaurants :
                  restaurants[id].slug = slug /\ restaurants[id].is_active = TRUE)
           => /\ pc' = "done"
              /\ restaurant' = Null
              /\ categories' = {}
              /\ menuItems' = {}
              /\ toast' = "Failed to load menu"
              /\ loading' = FALSE
              /\ last'.status = "not_single"
              /\ last'.rows = {} ]_vars

C10_Witness ==
    /\ pc = "done"
    /\ View = "Restaurant not found"
    /\ toast = "Failed to load menu"
    /\ last.op = "select"
    /\ last.table = "restaurants"
    /\ last.status = "not_single"
    /\ \E id \in DOMAIN restaurants :
          restaurants[id].slug = slug /\ restaurants[id].is_active = FALSE

(***************************************************************************)
(* Properties of the timestamps                                            *)
(***************************************************************************)
\* C8: every update that reaches a row of restaurants, menu_categories or
\* menu_items leaves the row's updated_at equal to the store's current time,
\* whichever columns the request supplied; an updated_at the caller supplied
\* is not what is stored.
C8_UpdateStampsNow ==
    [][ (/\ last'.op = "update"
         /\ last'.rows # {}
         /\ last'.table \in {"restaurants", "menu_categories", "menu_items"})
        => /\ DB'[last'.table][last'.id].updated_at = now
           /\ now' = now ]_vars

C8_Witness ==
    /\ last.op = "update"
    /\ last.table = "menu_items"
    /\ last.rows = {"i1"}
    /\ "updated_at" \in DOMAIN last.vals
    /\ last.vals.updated_at # now
    /\ menu_items["i1"].updated_at = now
    /\ menu_items["i1"].created_at < now

\* C9: for every menu item, an update never lowers updated_at: the value
\* after the update is greater than or equal to the value the row held
\* before it, from the row's insert onward.
C9_UpdatedAtNonDecreasing ==
    [][ (last'.op = "update" /\ last'.table = "menu_items" /\ last'.rows # {})
        => menu_items'[last'.id].updated_at >= menu_items[last'.id].updated_at ]_vars

(***************************************************************************)
(* Properties of row visibility                                            *)
(***************************************************************************)
FlaggedTables == {"restaurants", "menu_categories", "menu_items"}

\* the row's visibility flag: is_active, or is_available for a menu item
VisibilityFlag(t, row) == IF t = "menu_items" THEN row.is_available ELSE row.is_active

\* C11 as stated: whoever the caller is, a select on restaurants,
\* menu_categories or menu_items returns a row exactly when its visibility
\* flag is true; a row whose flag is false is returned to no caller.
C11_HiddenRowsToNoCaller ==
    (last.op = "select" /\ last.table \in FlaggedTables)
    => last.rows = {id \in DOMAIN DB[last.table] :
                      VisibilityFlag(last.table, DB[last.table][id]) = TRUE}

\* C11, amended: a select on restaurants, menu_categories or menu_items by a
\* caller who holds no admin grant (anonymous or authenticated) returns a row
\* exactly when its visibility flag is true; a caller who holds an admin
\* grant is returned every row, hidden ones included.
C11_HiddenRowsOnlyToAdmins ==
    (last.op = "select" /\ last.table \in FlaggedTables)
    => IF HoldsAdminGrant(last.caller)
       THEN last.rows = DOMAIN DB[last.table]
       ELSE last.rows = {id \in DOMAIN DB[last.table] :
                           VisibilityFlag(last.table, DB[last.table][id]) = TRUE}

C11_Witness ==
    /\ last.op = "select"
    /\ last.table = "restaurants"
    /\ last.caller = "u1"
    /\ HoldsAdminGrant("u1")
    /\ \E id \in last.rows : restaurants[id].is_active = FALSE
    /\ \E id \in last.rows : restaurants[id].is_active = TRUE

(***************************************************************************)
(* SpecRoles: an admin grants, changes and revokes roles, for every user,  *)
(* role and scope, the same grant possibly more than once.                 *)
(***************************************************************************)
NewGrantIds == {"g2", "g3"}

GrantInserts ==
    Req(NewGrantIds,
        {[user_id |-> u, role |-> r] : u \in Users, r \in {"admin", "user"}}
        \cup {[user_id |-> u, role |-> r, restaurant_id |-> "r1"] :
                 u \in Users, r \in {"admin", "user"}})

GrantUpdates ==
    Req(NewGrantIds, {[role |-> r] : r \in {"admin", "user"}}
                     \cup {[restaurant_id |-> sc] : sc \in {Null, "r1"}})

NextRoles ==
    \/ StoreInsert("u1", "restaurants", "r1", [slug |-> "pizza-palace"])
    \/ \E r \in GrantInserts : StoreInsert("u1", "user_roles", r.id, r.vals)
    \/ \E r \in GrantUpdates : StoreUpdate("u1", "user_roles", r.id, r.vals)
    \/ StoreDelete("u1", "restaurants", "r1")
    \/ \E id \in NewGrantIds : StoreDelete("u1", "user_roles", id)

SpecRoles == Init /\ [][NextRoles]_vars

(***************************************************************************)
(* Properties of the role grants                                           *)
(***************************************************************************)
GrantTriple(g) ==
    <<user_roles[g].user_id, user_roles[g].role, user_roles[g].restaurant_id>>

\* C12: in every state the triple (user, role, restaurant scope) is unique
\* among the rows of user_roles, a null scope (a global grant) included: no
\* two rows have the same user, role and scope.
C12_GrantTripleUnique ==
    \A g, h \in DOMAIN user_roles : GrantTriple(g) = GrantTriple(h) => g = h

(***************************************************************************)
(* SpecColumns: an admin calls the store directly, supplying columns the   *)
(* admin forms never send (created_at) or values they never let through    *)
(* (a negative price).  A price is kept in hundredths: DECIMAL(10, 2).     *)
(***************************************************************************)
Prices == {-100, 0, 14900}

ColumnItemInserts == Req({"i1"}, {[category_id |-> "c1", price |-> p] : p \in Prices})

NextColumns ==
    \/ Tick
    \/ \E r \in ColumnItemInserts : StoreInsert("u1", "menu_items", r.id, r.vals)
    \/ \E v \in {[is_active |-> b] : b \in BOOLEAN} \cup {[created_at |-> t] : t \in Times} :
          \/ StoreUpdate("u1", "restaurants", "r1", v)
          \/ StoreUpdate("u1", "menu_categories", "c1", v)
    \/ \E v \in {[price |-> p] : p \in Prices} \cup {[created_at |-> t] : t \in Times} :
          StoreUpdate("u1", "menu_items", "i1", v)
    \/ StoreDelete("u1", "menu_items", "i1")

SpecColumns == InitTime /\ [][NextColumns]_vars

(***************************************************************************)
(* Properties of the stored columns                                        *)
(***************************************************************************)
\* C13: a row's created_at is set when the row is inserted and no later
\* operation changes it: for every row of restaurants, menu_categories and
\* menu_items that a step keeps, created_at after the step equals created_at
\* before it, whatever columns an admin's update supplies.
C13_CreatedAtNeverChanges ==
    [][ \A t \in FlaggedTables :
          \A id \in DOMAIN DB[t] \cap DOMAIN DB'[t] :
              DB'[t][id].created_at = DB[t][id].created_at ]_vars

\* C18: in every state every stored menu item price is non-negative.
C18_PriceNonNegative ==
    \A i \in DOMAIN menu_items :
        "price" \in DOMAIN menu_items[i] => menu_items[i].price >= 0

(***************************************************************************)
(* The Admin page and its components RestaurantsAdmin, CategoriesAdmin and *)
(* MenuItemsAdmin.  The three components have the same handlers over their *)
(* own table; t names the table of the component a handler belongs to.     *)
(* Of a form's fields, those kept are the ones the store model keeps.      *)
(***************************************************************************)
AdminTables == {"restaurants", "menu_categories", "menu_items"}

TableIds(t) ==
    CASE t = "restaurants" -> RestaurantIds
      [] t = "menu_categories" -> CategoryIds
      [] t = "menu_items" -> ItemIds

\* a toast of the component; the entity's name in the text is left out
Toast(kind, text) == [kind |-> kind, text |-> text]

\* error.message of a store error
ErrorMessage(status) ==
    CASE status = "rls_error" -> "new row violates row-level security policy"
      [] status = "constraint_error" -> "violates constraint"
      [] status = "bucket_error" -> "object not accepted by the bucket"
      [] OTHER -> status

\* item.price.toString(): the stored price, in hundredths, as the form shows it
toString(price) ==
    CASE price = 0 -> "0"
      [] price = 14900 -> "149"
      [] price = 29900 -> "299"
      [] price = -100 -> "-1"

\* parseFloat(formData.price), in hundredths
parseFloat(text) ==
    CASE text = "0" -> 0
      [] text = "149" -> 14900
      [] text = "299" -> 29900
      [] text = "-1" -> -100
      [] OTHER -> "NaN"

\* useState initial formData, also what resetForm sets
resetForm(t) ==
    CASE t = "restaurants" -> [name |-> "", slug |-> ""]
      [] t = "menu_categories" -> [restaurant_id |-> "", name |-> "", display_order |-> 0]
      [] t = "menu_items" ->
            [category_id |-> "", name |-> "", price |-> "", image_url |-> "",
             is_vegetarian |-> FALSE, is_vegan |-> FALSE, is_spicy |-> FALSE]

\* handleEdit: the form filled from the listed row
FormOf(t, row) ==
    CASE t = "restaurants" -> [name |-> row.name, slug |-> row.slug]
      [] t = "menu_categories" ->
            [restaurant_id |-> row.restaurant_id, name |-> row.name,
             display_order |-> row.display_order]
      [] t = "menu_items" ->
            [category_id |-> row.category_id, name |-> row.name,
             price |-> toString(row.price),
             image_url |-> IF row.image_url = Null THEN "" ELSE row.image_url,
             is_vegetarian |-> row.is_vegetarian, is_vegan |-> row.is_vegan,
             is_spicy |-> row.is_spicy]

\* the browser's constraint validation of the form, which runs before
\* onSubmit: required fields, and type="number" min="0" on the price
FormValid(t, formData) ==
    CASE t = "restaurants" -> formData.name # "" /\ formData.slug # ""
      [] t = "menu_categories" -> formData.restaurant_id # "" /\ formData.name # ""
      [] t = "menu_items" ->
            /\ formData.category_id # ""
            /\ formData.name # ""
            /\ formData.price \in {"0", "149", "299"}

SubmitValsWithFlag(t, formData) ==
    (IF t = "menu_items" THEN [formData EXCEPT !.price = parseFloat(@)] ELSE formData)
    @@ [is_active |-> TRUE, is_available |-> TRUE]

\* the columns handleSubmit sends: formData, with the price parsed for an item
SubmitVals(t, formData) ==
    IF t = "menu_items" THEN [formData EXCEPT !.price = parseFloat(@)] ELSE formData

\* Admin.tsx checkAdminAccess: the user's own admin grant, .single(); an
\* error, or no row, toasts and navigates away; finally setLoading(false)
checkAdminAccess(u) ==
    /\ admin[u].pc = "closed"
    /\ LET found == {g \in Select(DB, u, "user_roles") :
                        user_roles[g].user_id = u /\ user_roles[g].role = "admin"}
           res == Single({RowOf(DB, "user_roles", g) : g \in found})
       IN  /\ Answered("select", u, "user_roles", Null, NoVals,
                       Answer(IF res.error THEN "not_single" ELSE "ok",
                              IF res.error THEN {} ELSE found, DB))
           /\ admin' = [admin EXCEPT ![u] =
                          IF res.error
                          THEN [SignedOut EXCEPT !.toast =
                                   Toast("error", "Access denied. Admin privileges required."),
                                                 !.loading = FALSE]
                          ELSE [@ EXCEPT !.isAdmin = TRUE, !.pc = "tabs",
                                         !.loading = FALSE]]
    /\ UNCHANGED publicVars

\* a tab of the Admin page is shown: its component mounts with its initial
\* state and its useEffect starts the first fetch
Mount(u, t) ==
    /\ admin[u].isAdmin
    /\ admin[u].tab # t
    /\ admin' = [admin EXCEPT ![u] =
                   [SignedOut EXCEPT !.isAdmin = TRUE, !.loading = FALSE,
                                     !.tab = t, !.pc = "fetchData",
                                     !.formData = resetForm(t)]]
    /\ last' = NoRequest
    /\ UNCHANGED <<tables, now, objects, publicVars>>

\* the rows a component lists: RestaurantsAdmin.fetchRestaurants and
\* CategoriesAdmin.fetchData select every row the caller may see;
\* MenuItemsAdmin.fetchMenuItems the items whose category, joined inner, is of
\* the selected restaurant
Listed(db, u, t, selectedRestaurant) ==
    CASE t = "menu_items" ->
            {RowOf(db, t, i) :
                i \in {j \in Select(db, u, t) :
                          /\ db.menu_items[j].category_id \in Select(db, u, "menu_categories")
                          /\ db.menu_categories[db.menu_items[j].category_id].restaurant_id
                                = selectedRestaurant
                          /\ selectedRestaurant \in Select(db, u, "restaurants")}}
      [] OTHER -> {RowOf(db, t, i) : i \in Select(db, u, t)}

\* fetchRestaurants / fetchData.  MenuItemsAdmin.fetchData lists the active
\* restaurants and selects the first; the effect on selectedRestaurant
\* then starts fetchCategories and fetchMenuItems.
fetchData(u) ==
    /\ admin[u].pc = "fetchData"
    /\ LET t == admin[u].tab
           active == Ids(ActiveRestaurants(DB, u))
           first == IF active = {} THEN admin[u].selectedRestaurant
                    ELSE CHOOSE r \in active : TRUE
       IN  IF t = "menu_items"
           THEN /\ Answered("select", u, "restaurants", Null, NoVals,
                            Answer("ok", active, DB))
                /\ admin' = [admin EXCEPT ![u].selectedRestaurant = first,
                                          ![u].pc = IF first # admin[u].selectedRestaurant
                                                    THEN "fetchMenuItems" ELSE "idle",
                                          ![u].inflight =
                                              IF first # admin[u].selectedRestaurant
                                              THEN @ \cup {[fn |-> "fetchCategories",
                                                            restaurantId |-> first]}
                                              ELSE @,
                                          ![u].tabLoading = FALSE]
           ELSE /\ Answered("select", u, t, Null, NoVals,
                            Answer("ok", Ids(Listed(DB, u, t, "")), DB))
                /\ admin' = [admin EXCEPT ![u].list = Listed(DB, u, t, ""),
                                          ![u].pc = "idle",
                                          ![u].tabLoading = FALSE]
    /\ UNCHANGED publicVars

\* MenuItemsAdmin.fetchMenuItems(selectedRestaurant)
fetchMenuItems(u) ==
    /\ admin[u].pc = "fetchMenuItems"
    /\ LET rows == Listed(DB, u, "menu_items", admin[u].selectedRestaurant)
       IN  /\ Answered("select", u, "menu_items", Null, NoVals, Answer("ok", Ids(rows), DB))
           /\ admin' = [admin EXCEPT ![u].list = rows, ![u].pc = "idle"]
    /\ UNCHANGED publicVars

\* the fetch a handler starts after a successful save or delete
Refetch(t, session) ==
    IF t = "menu_items"
    THEN IF session.selectedRestaurant # "" THEN "fetchMenuItems" ELSE session.pc
    ELSE "fetchData"

\* the Add button: resetForm, and the dialog opens
OpenAdd(u) ==
    /\ admin[u].tab \in AdminTables
    /\ admin' = [admin EXCEPT ![u].editing = NoRow,
                              ![u].formData = resetForm(admin[u].tab),
                              ![u].dialogOpen = TRUE]
    /\ last' = NoRequest
    /\ UNCHANGED <<tables, now, objects, publicVars>>

\* handleEdit(row), for a row of the list as it was fetched
handleEdit(u, id) ==
    /\ admin[u].tab \in AdminTables
    /\ \E row \in admin[u].list :
          /\ row.id = id
          /\ admin' = [admin EXCEPT ![u].editing = row,
                                    ![u].formData = FormOf(admin[u].tab, row),
                                    ![u].dialogOpen = TRUE]
    /\ last' = NoRequest
    /\ UNCHANGED <<tables, now, objects, publicVars>>

\* onChange of a form input: setFormData({ ...formData, [k]: v })
SetField(u, k, v) ==
    /\ admin[u].dialogOpen
    /\ k \in DOMAIN admin[u].formData
    /\ admin[u].formData[k] # v
    /\ admin' = [admin EXCEPT ![u].formData[k] = v]
    /\ last' = NoRequest
    /\ UNCHANGED <<tables, now, objects, publicVars>>

SavedClosesDialog(u, t, ans, done) ==
    admin' = [admin EXCEPT ![u] =
                [@ EXCEPT !.toast = IF ans.status = "ok" THEN Toast("success", done)
                                    ELSE Toast("error", ErrorMessage(ans.status)),
                          !.dialogOpen = FALSE,
                          !.editing = NoRow,
                          !.formData = resetForm(t),
                          !.pc = Refetch(t, admin[u])]]

\* what handleSubmit / handleDelete do with the store's answer
Saved(u, t, ans, done) ==
    admin' = [admin EXCEPT ![u] =
                IF ans.status = "ok"
                THEN [@ EXCEPT !.toast = Toast("success", done),
                               !.dialogOpen = FALSE,
                               !.editing = NoRow,
                               !.formData = resetForm(t),
                               !.pc = Refetch(t, admin[u])]
                ELSE [@ EXCEPT !.toast = Toast("error", ErrorMessage(ans.status))]]

\* handleSubmit: update of the row being edited, or insert of a new row
handleSubmit(u) ==
    /\ admin[u].tab \in AdminTables
    /\ admin[u].dialogOpen
    /\ FormValid(admin[u].tab, admin[u].formData)
    /\ LET t == admin[u].tab
           vals == SubmitVals(t, admin[u].formData)
       IN  IF admin[u].editing.id # Null
           THEN LET ans == Update(DB, u, t, admin[u].editing.id, vals, now)
                IN  /\ Answered("update", u, t, admin[u].editing.id, vals, ans)
                    /\ Saved(u, t, ans, "updated successfully")
           ELSE \E id \in TableIds(t) \ DOMAIN DB[t] :
                   LET ans == Insert(DB, u, t, id, WithDefaults(t, vals, now))
                   IN  /\ Answered("insert", u, t, id, vals, ans)
                       /\ Saved(u, t, ans, "created successfully")
    /\ UNCHANGED publicVars

\* handleDelete(id), confirmed, for a row of the list
handleDelete(u, id) ==
    /\ admin[u].tab \in AdminTables
    /\ id \in Ids(admin[u].list)
    /\ LET t == admin[u].tab
           ans == Delete(DB, u, t, id)
       IN  /\ Answered("delete", u, t, id, NoVals, ans)
           /\ admin' = [admin EXCEPT ![u] =
                          IF ans.status = "ok"
                          THEN [@ EXCEPT !.toast = Toast("success", "deleted successfully"),
                                         !.pc = Refetch(t, admin[u])]
                          ELSE [@ EXCEPT !.toast = Toast("error", ErrorMessage(ans.status))]]
    /\ UNCHANGED publicVars

\* one restaurant with one category and one item, and two users who each
\* hold a global admin grant
InitAdmin ==
    /\ restaurants =
          ("r1" :> WithDefaults("restaurants",
                                [slug |-> "pizza-palace", name |-> "Pizza Palace"], 0))
    /\ menu_categories =
          ("c1" :> WithDefaults("menu_categories",
                                [restaurant_id |-> "r1", name |-> "Starters",
                                 display_order |-> 0], 0))
    /\ menu_items =
          ("i1" :> WithDefaults("menu_items",
                                [category_id |-> "c1", name |-> "Garlic Bread",
                                 price |-> 14900, image_url |-> Null], 0))
    /\ user_roles = ("g1" :> [user_id |-> "u1", role |-> "admin", restaurant_id |-> Null])
                    @@ ("g2" :> [user_id |-> "u2", role |-> "admin", restaurant_id |-> Null])
    /\ now = 0
    /\ last = NoRequest
    /\ objects = << >>
    /\ PageInit

(***************************************************************************)
(* SpecEdit: two admins have CategoriesAdmin open, load the same category  *)
(* and submit edits of it, in any order.                                   *)
(***************************************************************************)
CategoryNames == {"Starters", "Mains", "Soups"}

NextEdit ==
    \E u \in Users :
        \/ checkAdminAccess(u)
        \/ Mount(u, "menu_categories")
        \/ fetchData(u)
        \/ handleEdit(u, "c1")
        \/ \E n \in CategoryNames : SetField(u, "name", n)
        \/ \E d \in {0, 1} : SetField(u, "display_order", d)
        \/ handleSubmit(u)

SpecEdit == InitAdmin /\ [][NextEdit]_vars

(***************************************************************************)
(* Properties of concurrent edits                                          *)
(***************************************************************************)
\* C20: when two admins have loaded the same row and both submit an edit,
\* whatever the order and the interleaving of loads and submits, each update
\* is accepted without error (the handler toasts success) and leaves in the
\* stored row the field values that update submitted; what an earlier update
\* wrote to those fields is overwritten.
C20_LastWriteWins ==
    [][ \A u \in Users :
          (/\ last'.op = "update"
           /\ last'.caller = u
           /\ last'.table = "menu_categories")
          => /\ last'.vals = admin[u].formData
             /\ last'.status = "ok"
             /\ last'.rows = {last'.id}
             /\ admin'[u].toast = Toast("success", "updated successfully")
             /\ \A k \in DOMAIN last'.vals :
                   menu_categories'[last'.id][k] = last'.vals[k] ]_vars

C20_Witness ==
    /\ last.op = "update"
    /\ last.caller = "u2"
    /\ last.status = "ok"
    /\ menu_categories["c1"].name = "Soups"
    /\ admin["u1"].toast = Toast("success", "updated successfully")
    /\ \E row \in admin["u1"].list : row.id = "c1" /\ row.name = "Mains"
    /\ \E row \in admin["u2"].list : row.id = "c1" /\ row.name = "Starters"

(***************************************************************************)
(* SpecSlug: an admin creates and edits restaurants in RestaurantsAdmin,   *)
(* slug included, while the public list is read.                           *)
(***************************************************************************)
RestaurantNames == {"Pizza Palace", "Kebab Hut"}

\* the slug input's onChange: e.target.value.toLowerCase().replace(/\s+/g, '-')
slugify(text) ==
    CASE text = "Pizza Palace" -> "pizza-palace"
      [] text = "Kebab Hut" -> "kebab-hut"
      [] OTHER -> text

NextSlug ==
    \/ checkAdminAccess("u1")
    \/ Mount("u1", "restaurants")
    \/ fetchData("u1")
    \/ OpenAdd("u1")
    \/ \E r \in RestaurantIds : handleEdit("u1", r)
    \/ \E n \in RestaurantNames : SetField("u1", "name", n)
    \/ \E typed \in RestaurantNames \cup Slugs : SetField("u1", "slug", slugify(typed))
    \/ handleSubmit("u1")
    \/ ListFetch

SpecSlug == InitAdmin /\ [][NextSlug]_vars

(***************************************************************************)
(* Properties of the slug                                                  *)
(***************************************************************************)
\* C14: in every state no two restaurants have the same slug; an insert or
\* an update of an existing restaurant that supplies a slug another
\* restaurant holds is rejected by the store and leaves every table as it
\* was (and the form toasts the error).
C14_SlugUnique ==
    /\ [](\A a, b \in DOMAIN restaurants :
            restaurants[a].slug = restaurants[b].slug => a = b)
    /\ [][ (/\ last'.table = "restaurants"
            /\ last'.op \in {"insert", "update"}
            /\ last'.op = "update" => last'.id \in DOMAIN restaurants
            /\ \E o \in DOMAIN restaurants \ {last'.id} :
                  restaurants[o].slug = last'.vals.slug)
           => /\ last'.status = "constraint_error"
              /\ last'.rows = {}
              /\ tables' = tables
              /\ admin'["u1"].toast = Toast("error", ErrorMessage("constraint_error")) ]_vars

C14_Witness ==
    /\ last.table = "restaurants"
    /\ last.op = "update"
    /\ last.status = "constraint_error"
    /\ DOMAIN restaurants = {"r1", "r2"}
    /\ last.vals.slug = restaurants["r1"].slug
    /\ last.id = "r2"
    /\ restaurants["r2"].slug # restaurants["r1"].slug

\* C15: once a restaurant has been exposed through the public list, no
\* update changes its slug, an update submitted from the admin edit form
\* included.
C15_SlugImmutableOnceExposed ==
    [][ \A r \in listRestaurants :
          (r.id \in DOMAIN restaurants /\ r.id \in DOMAIN restaurants')
          => restaurants'[r.id].slug = restaurants[r.id].slug ]_vars

(***************************************************************************)
(* SpecDenied: an admin has MenuItemsAdmin open when another admin revokes *)
(* their grant.  Admin.tsx checks the grant once, at mount, so the         *)
(* component stays open and its handlers go on sending writes, which the   *)
(* policies of menu_items now deny.                                        *)
(***************************************************************************)
ItemNames == {"Garlic Bread", "Naan"}

NextDenied ==
    \/ checkAdminAccess("u2")
    \/ Mount("u2", "menu_items")
    \/ fetchData("u2")
    \/ fetchMenuItems("u2")
    \/ StoreDelete("u1", "user_roles", "g2")
    \/ OpenAdd("u2")
    \/ handleEdit("u2", "i1")
    \/ SetField("u2", "category_id", "c1")
    \/ \E n \in ItemNames : SetField("u2", "name", n)
    \/ \E p \in {"149", "299"} : SetField("u2", "price", p)
    \/ handleSubmit("u2")
    \/ handleDelete("u2", "i1")

SpecDenied == InitAdmin /\ [][NextDenied]_vars

(***************************************************************************)
(* Properties of a denied write                                            *)
(***************************************************************************)
\* C16: a write (insert, update or delete) of menu_items that the policies
\* deny, its caller holding no admin grant, is answered with an error, which
\* the handler that sent it toasts as an error and never as a success, and
\* the tables stay as they were.
C16_DenialIsAnError ==
    [][ \A u \in Users :
          (/\ last'.op \in Writes
           /\ last'.caller = u
           /\ last'.table = "menu_items"
           /\ ~has_role(DB, u, "admin"))
          => /\ last'.status = "rls_error"
             /\ admin'[u].toast = Toast("error", ErrorMessage("rls_error"))
             /\ tables' = tables ]_vars

(***************************************************************************)
(* Storage: the bucket menu-images and the policies of storage.objects.    *)
(* An object is keyed by its bucket and its path.  A second bucket stands  *)
(* for any bucket other than menu-images.                                  *)
(***************************************************************************)
BucketIds == {"menu-images", "avatars"}

ObjectNames == {"a", "b"}

Key(b, n) == b \o "/" \o n

\* storage.buckets row of menu-images
file_size_limit == 5242880

allowed_mime_types == {"image/jpeg", "image/png", "image/webp", "image/gif"}

\* policy "Menu images are publicly accessible", FOR SELECT
MenuImagesPubliclyAccessible(c, obj) == obj.bucket_id = "menu-images"

\* policy "Authenticated users can upload menu images", FOR INSERT WITH CHECK
AuthenticatedCanUpload(c, obj) ==
    obj.bucket_id = "menu-images" /\ auth_role(c) = "authenticated"

\* policy "Authenticated users can update menu images", FOR UPDATE USING
AuthenticatedCanUpdate(c, obj) ==
    obj.bucket_id = "menu-images" /\ auth_role(c) = "authenticated"

AuthenticatedCanDeleteAnyRole(c, obj) == obj.bucket_id = "menu-images"

\* policy "Authenticated users can delete menu images", FOR DELETE USING
AuthenticatedCanDelete(c, obj) ==
    obj.bucket_id = "menu-images" /\ auth_role(c) = "authenticated"

\* row-level security of storage.objects: the policy of the command, and no
\* other policy exists for the table
ObjectsPolicy(c, cmd, obj) ==
    CASE cmd = "SELECT" -> MenuImagesPubliclyAccessible(c, obj)
      [] cmd = "INSERT" -> AuthenticatedCanUpload(c, obj)
      [] cmd = "UPDATE" -> AuthenticatedCanUpdate(c, obj)
      [] cmd = "DELETE" -> AuthenticatedCanDelete(c, obj)

\* what the bucket accepts: file_size_limit and allowed_mime_types
BucketAccepts(b, file) ==
    b = "menu-images" => file.size <= file_size_limit /\ file.type \in allowed_mime_types

ObjectOf(c, b, n, file) ==
    [bucket_id |-> b, name |-> n, owner |-> auth_uid(c), type |-> file.type,
     size |-> file.size]

StorageAnswer(status, rows, objs) == [status |-> status, rows |-> rows, objs |-> objs]

\* storage.from(b).upload(n, file): a new object, never an overwrite
Upload(objs, c, b, n, file) ==
    IF ~ObjectsPolicy(c, "INSERT", ObjectOf(c, b, n, file))
    THEN StorageAnswer("rls_error", {}, objs)
    ELSE IF Key(b, n) \in DOMAIN objs \/ ~BucketAccepts(b, file)
    THEN StorageAnswer("bucket_error", {}, objs)
    ELSE StorageAnswer("ok", {Key(b, n)}, (Key(b, n) :> ObjectOf(c, b, n, file)) @@ objs)

\* storage.from(b).download(n)
Download(objs, c, b, n) ==
    IF Key(b, n) \in DOMAIN objs /\ ObjectsPolicy(c, "SELECT", objs[Key(b, n)])
    THEN StorageAnswer("ok", {Key(b, n)}, objs)
    ELSE StorageAnswer("not_found", {}, objs)

\* storage.from(b).update(n, file): the object at n replaced
Replace(objs, c, b, n, file) ==
    IF \/ Key(b, n) \notin DOMAIN objs
       \/ ~ObjectsPolicy(c, "SELECT", objs[Key(b, n)])
       \/ ~ObjectsPolicy(c, "UPDATE", objs[Key(b, n)])
    THEN StorageAnswer("not_found", {}, objs)
    ELSE IF ~BucketAccepts(b, file) THEN StorageAnswer("bucket_error", {}, objs)
    ELSE StorageAnswer("ok", {Key(b, n)},
                       [objs EXCEPT ![Key(b, n)] = ObjectOf(c, b, n, file)])

\* storage.from(b).remove([n]): the objects removed are returned
Remove(objs, c, b, n) ==
    IF \/ Key(b, n) \notin DOMAIN objs
       \/ ~ObjectsPolicy(c, "SELECT", objs[Key(b, n)])
       \/ ~ObjectsPolicy(c, "DELETE", objs[Key(b, n)])
    THEN StorageAnswer("ok", {}, objs)
    ELSE StorageAnswer("ok", {Key(b, n)},
                       [k \in DOMAIN objs \ {Key(b, n)} |-> objs[k]])

\* a storage request answered: objects change, the tables do not
StorageAnswered(op, c, b, n, file, ans) ==
    /\ objects' = ans.objs
    /\ last' = [op |-> op, table |-> "storage.objects", caller |-> c, id |-> Key(b, n),
                vals |-> [bucket_id |-> b, name |-> n, type |-> file.type,
                          size |-> file.size],
                status |-> ans.status, rows |-> ans.rows,
                gone |-> DOMAIN objects \ DOMAIN ans.objs]
    /\ UNCHANGED <<tables, now>>

(***************************************************************************)
(* MenuItemsAdmin.handleFileUpload, in two steps: the checks in the        *)
(* browser up to setUploading(true), and what follows the awaited upload.  *)
(***************************************************************************)
FileTypes == {"image/png", "image/svg+xml", "application/pdf"}

FileSizes == {1024, 5 * 1024 * 1024 + 1}

Files == {[name |-> "photo", type |-> ty, size |-> sz] : ty \in FileTypes, sz \in FileSizes}

\* String.prototype.startsWith
startsWith(s, p) == Len(s) >= Len(p) /\ SubSeq(s, 1, Len(p)) = p

\* storage.from(b).getPublicUrl(n)
getPublicUrl(b, n) == "/storage/v1/object/public/" \o Key(b, n)

\* the change event of the file input, which fires when the chosen file
\* changes: the two checks, then setUploading(true); formData is captured by
\* the closure.  The Browse button is disabled while uploading.
handleFileUpload(u, file) ==
    /\ admin[u].tab = "menu_items"
    /\ admin[u].dialogOpen
    /\ ~admin[u].uploading
    /\ file # admin[u].upload.file
    /\ admin' = [admin EXCEPT ![u] =
                   IF ~startsWith(file.type, "image/")
                   THEN [@ EXCEPT !.toast = Toast("error", "Please upload an image file"),
                                  !.upload = [file |-> file, formData |-> NoVals]]
                   ELSE IF file.size > 5 * 1024 * 1024
                   THEN [@ EXCEPT !.toast = Toast("error", "Image size must be less than 5MB"),
                                  !.upload = [file |-> file, formData |-> NoVals]]
                   ELSE [@ EXCEPT !.uploading = TRUE,
                                  !.upload = [file |-> file,
                                              formData |-> admin[u].formData]]]
    /\ last' = NoRequest
    /\ UNCHANGED <<tables, now, objects, publicVars>>

\* the upload to menu-images under a fresh random name, and the rest of
\* handleFileUpload: the public URL put in the captured formData, or the
\* error toasted; finally setUploading(false)
uploadAnswered(u) ==
    /\ admin[u].uploading
    /\ \E n \in ObjectNames :
          /\ Key("menu-images", n) \notin DOMAIN objects
          /\ LET file == admin[u].upload.file
                 ans == Upload(objects, u, "menu-images", n, file)
             IN  /\ StorageAnswered("upload", u, "menu-images", n, file, ans)
                 /\ admin' = [admin EXCEPT ![u] =
                       IF ans.status = "ok"
                       THEN [@ EXCEPT !.formData =
                                         [admin[u].upload.formData EXCEPT
                                             !.image_url = getPublicUrl("menu-images", n)],
                                      !.toast = Toast("success", "Image uploaded successfully"),
                                      !.uploading = FALSE]
                       ELSE [@ EXCEPT !.toast = Toast("error", ErrorMessage(ans.status)),
                                      !.uploading = FALSE]]
    /\ UNCHANGED publicVars

(***************************************************************************)
(* SpecUpload: an admin fills the form of a new item in MenuItemsAdmin,    *)
(* chooses files for the image and submits.                                *)
(***************************************************************************)
NextUpload ==
    \/ checkAdminAccess("u1")
    \/ Mount("u1", "menu_items")
    \/ fetchData("u1")
    \/ fetchMenuItems("u1")
    \/ OpenAdd("u1")
    \/ SetField("u1", "category_id", "c1")
    \/ SetField("u1", "name", "Naan")
    \/ SetField("u1", "price", "299")
    \/ \E file \in Files : handleFileUpload("u1", file)
    \/ uploadAnswered("u1")
    \/ handleSubmit("u1")

SpecUpload == InitAdmin /\ [][NextUpload]_vars

(***************************************************************************)
(* Properties of form and file validation                                  *)
(***************************************************************************)
\* C17: a validation failure is rejected in the browser and no request is
\* sent for it.  A file larger than 5 MiB, or of a MIME type other than
\* image/jpeg, image/png, image/webp and image/gif, gets an error toast from
\* handleFileUpload and no upload starts, so every upload request carries a
\* file the bucket accepts; and every insert or update of a menu item that
\* is sent carries a numeric price.
C17_InvalidRejectedInBrowser ==
    /\ [][ \A u \in Users :
             (/\ admin'[u].upload.file # admin[u].upload.file
              /\ admin'[u].upload.file # NoFile
              /\ ~BucketAccepts("menu-images", admin'[u].upload.file))
             => /\ admin'[u].toast.kind = "error"
                /\ ~admin'[u].uploading
                /\ last'.op = "none" ]_vars
    /\ [][ last'.op = "upload" => BucketAccepts("menu-images", last'.vals) ]_vars
    /\ [][ (last'.op \in {"insert", "update"} /\ last'.table = "menu_items")
             => last'.vals.price \in Nat ]_vars

(***************************************************************************)
(* SpecStorage: every caller (anonymous, the admin u1, and u2 who holds no *)
(* grant) reads, uploads, replaces and removes objects of both buckets     *)
(* through the storage API.  One object of the other bucket exists from    *)
(* the start.                                                              *)
(***************************************************************************)
InitStorage ==
    /\ restaurants = << >>
    /\ menu_categories = << >>
    /\ menu_items = << >>
    /\ user_roles = ("g1" :> [user_id |-> "u1", role |-> "admin", restaurant_id |-> Null])
    /\ now = 0
    /\ last = NoRequest
    /\ objects = (Key("avatars", "a") :>
                    [bucket_id |-> "avatars", name |-> "a", owner |-> Null,
                     type |-> "image/png", size |-> 1024])
    /\ PageInit

NextStorage ==
    \E c \in Callers, b \in BucketIds, n \in ObjectNames :
        /\ \/ \E file \in Files :
                 StorageAnswered("upload", c, b, n, file, Upload(objects, c, b, n, file))
           \/ StorageAnswered("download", c, b, n, NoFile, Download(objects, c, b, n))
           \/ \E file \in Files :
                 StorageAnswered("replace", c, b, n, file, Replace(objects, c, b, n, file))
           \/ StorageAnswered("remove", c, b, n, NoFile, Remove(objects, c, b, n))
        /\ UNCHANGED pageVars

SpecStorage == InitStorage /\ [][NextStorage]_vars

onCheckedChange(u, box) ==
    /\ admin[u].tab = "menu_items"
    /\ admin[u].dialogOpen
    /\ LET formData == admin[u].formData
           new == CASE box = "is_vegetarian" ->
                          [formData EXCEPT !.is_vegetarian = ~@, !.is_vegan = FALSE]
                    [] box = "is_vegan" ->
                          [formData EXCEPT !.is_vegan = ~@, !.is_vegetarian = FALSE]
                    [] box = "is_nonveg" ->
                          IF ~(~formData.is_vegetarian /\ ~formData.is_vegan)
                          THEN [formData EXCEPT !.is_vegetarian = FALSE, !.is_vegan = FALSE]
                          ELSE formData
                    [] box = "is_spicy" -> [formData EXCEPT !.is_spicy = ~@]
       IN  /\ new # formData
           /\ admin' = [admin EXCEPT ![u].formData = new]
    /\ last' = NoRequest
    /\ UNCHANGED <<tables, now, objects, publicVars>>

(***************************************************************************)
(* SpecDiet: an admin works in the item form of MenuItemsAdmin (Add, Edit, *)
(* the checkboxes, submit) while another admin sets an item's flags by a   *)
(* direct call of the store.                                               *)
(***************************************************************************)
NextDiet ==
    \/ checkAdminAccess("u1")
    \/ Mount("u1", "menu_items")
    \/ fetchData("u1")
    \/ fetchMenuItems("u1")
    \/ OpenAdd("u1")
    \/ handleEdit("u1", "i1")
    \/ \E box \in {"is_vegetarian", "is_vegan", "is_nonveg", "is_spicy"} :
          onCheckedChange("u1", box)
    \/ handleSubmit("u1")
    \/ \E veg, vegan \in BOOLEAN :
          StoreUpdate("u2", "menu_items", "i1", [is_vegetarian |-> veg, is_vegan |-> vegan])

SpecDiet == InitAdmin /\ [][NextDiet]_vars

(***************************************************************************)
(* Properties of the dietary flags                                         *)
(***************************************************************************)
\* C21: in the item form of MenuItemsAdmin is_vegetarian and is_vegan are
\* never both true, after any sequence of Add, Edit of a stored item and
\* checkbox clicks; so no insert or update sent by the form carries both
\* flags true.
C21_FormFlagsExclusive ==
    /\ [](\A u \in Users :
            admin[u].tab = "menu_items"
            => ~(admin[u].formData.is_vegetarian /\ admin[u].formData.is_vegan))
    /\ [][ (/\ last'.op \in {"insert", "update"}
            /\ last'.table = "menu_items"
            /\ last'.caller = "u1")
           => ~(last'.vals.is_vegetarian /\ last'.vals.is_vegan) ]_vars

(***************************************************************************)
(* SpecSave: an admin adds and edits categories in CategoriesAdmin while   *)
(* another admin creates and deletes the restaurant r2, so that the form   *)
(* may name a restaurant that is gone.                                     *)
(***************************************************************************)
NextSave ==
    \/ checkAdminAccess("u1")
    \/ Mount("u1", "menu_categories")
    \/ fetchData("u1")
    \/ OpenAdd("u1")
    \/ handleEdit("u1", "c1")
    \/ \E r \in RestaurantIds : SetField("u1", "restaurant_id", r)
    \/ SetField("u1", "name", "Mains")
    \/ handleSubmit("u1")
    \/ StoreInsert("u2", "restaurants", "r2", [slug |-> "kebab-hut", name |-> "Kebab Hut"])
    \/ StoreDelete("u2", "restaurants", "r2")

SpecSave == InitAdmin /\ [][NextSave]_vars

(***************************************************************************)
(* Properties of a failed save                                             *)
(***************************************************************************)
\* C22: when the store rejects the insert or update that handleSubmit sent
\* (a category naming a restaurant that does not exist), the tables are
\* unchanged, the handler toasts the error, and nothing else of the
\* component changes: the dialog stays open, formData and the edit target
\* are kept, no fetch or second request is started; the form can be
\* submitted again.
C22_SaveFailureLocal ==
    [][ \A u \in Users :
          (/\ last'.op \in {"insert", "update"}
           /\ last'.caller = u
           /\ last'.table = admin[u].tab
           /\ last'.status # "ok")
          => /\ tables' = tables
             /\ last'.rows = {}
             /\ admin'[u].toast = Toast("error", ErrorMessage(last'.status))
             /\ admin'[u] = [admin[u] EXCEPT !.toast = admin'[u].toast]
             /\ admin'[u].dialogOpen
             /\ FormValid(admin'[u].tab, admin'[u].formData) ]_vars

\* the update of c1 to a restaurant that does not exist has been rejected
C22_Witness ==
    /\ last.op = "update"
    /\ last.caller = "u1"
    /\ last.status = "constraint_error"
    /\ last.vals.restaurant_id = "r2"
    /\ "r2" \notin DOMAIN restaurants
    /\ admin["u1"].editing.id = "c1"
    /\ admin["u1"].dialogOpen
    /\ admin["u1"].toast.kind = "error"
    /\ \E row \in admin["u1"].list : row.id = "c1" /\ row.restaurant_id = "r1"

(***************************************************************************)
(* SpecGate: the admin u1 grants and revokes roles, global and scoped to a *)
(* restaurant, while users open the Admin page.                            *)
(***************************************************************************)
NextGate == NextRoles \/ \E u \in Users : checkAdminAccess(u)

SpecGate == Init /\ [][NextGate]_vars

(***************************************************************************)
(* Properties of the Admin page's gate                                     *)
(***************************************************************************)
\* C23: when a signed-in user opens the Admin page, checkAdminAccess sets
\* isAdmin to true exactly when has_role(user, 'admin') is true in the
\* store, also for a user who holds two or more admin grants of different
\* restaurant scopes.
C23_GateAgreesWithHasRole ==
    [][ \A u \in Users :
          (/\ last'.op = "select"
           /\ last'.table = "user_roles"
           /\ last'.caller = u
           /\ admin[u].pc = "closed")
          => (admin'[u].isAdmin <=> has_role(DB, u, "admin")) ]_vars

(***************************************************************************)
(* Properties of what a hidden container hides                             *)
(***************************************************************************)
\* C24: no select by the anonymous caller returns a category of a
\* restaurant whose is_active is false, nor an item whose category has
\* is_active false or belongs to such a restaurant.
C24_HiddenContainerHidesContents ==
    [][ (last'.op = "select" /\ last'.caller = Anon) =>
          /\ last'.table = "menu_categories" =>
                \A c \in last'.rows : restaurants[menu_categories[c].restaurant_id].is_active
          /\ last'.table = "menu_items" =>
                \A i \in last'.rows :
                    LET c == menu_categories[menu_items[i].category_id]
                    IN  c.is_active /\ restaurants[c.restaurant_id].is_active ]_vars

(***************************************************************************)
(* SpecEscalation: every caller inserts, updates and deletes role grants,  *)
(* starting with no grant at all, with one admin, or with one plain user.  *)
(***************************************************************************)
InitEscalation ==
    /\ restaurants = << >>
    /\ menu_categories = << >>
    /\ menu_items = << >>
    /\ user_roles \in
          { << >>,
            "g1" :> [user_id |-> "u1", role |-> "admin", restaurant_id |-> Null],
            "g1" :> [user_id |-> "u2", role |-> "user", restaurant_id |-> Null] }
    /\ now = 0
    /\ last = NoRequest
    /\ objects = << >>
    /\ PageInit

NextEscalation ==
    \E c \in Callers :
        \/ \E u \in Users, r \in {"admin", "user"} :
              StoreInsert(c, "user_roles", "g2", [user_id |-> u, role |-> r])
        \/ \E g \in GrantIds, v \in {[role |-> r] : r \in {"admin", "user"}}
                                    \cup {[user_id |-> u] : u \in Users} :
              StoreUpdate(c, "user_roles", g, v)
        \/ \E g \in GrantIds : StoreDelete(c, "user_roles", g)
        \/ StoreSelect(c, "user_roles")

SpecEscalation == InitEscalation /\ [][NextEscalation]_vars

(***************************************************************************)
(* Properties of privilege                                                 *)
(***************************************************************************)
\* C25: has_role(u, 'admin') turns from false to true for a user u only in
\* a step that is an insert or update of user_roles by a caller for whom
\* has_role(caller, 'admin') was true before the step; so where no user
\* holds an admin grant, no step creates one.
C25_NoPrivilegeEscalation ==
    [][ /\ \A u \in Users :
             (~has_role(DB, u, "admin") /\ has_role(DB', u, "admin"))
             => /\ last'.table = "user_roles"
                /\ last'.op \in {"insert", "update"}
                /\ last'.status = "ok"
                /\ last'.caller \in Users
                /\ has_role(DB, last'.caller, "admin")
        /\ (\A u \in Users : ~has_role(DB, u, "admin"))
           => (\A u \in Users : ~has_role(DB', u, "admin")) ]_vars

\* the admin u1 has made u2 an admin by updating u2's grant
C25_Witness ==
    /\ last.op = "update"
    /\ last.table = "user_roles"
    /\ last.caller = "u1"
    /\ last.vals = [role |-> "admin"]
    /\ last.rows = {"g2"}
    /\ has_role(DB, "u2", "admin")
    /\ user_roles["g2"].user_id = "u2"

(***************************************************************************)
(* Properties of scoped grants when their restaurant is deleted            *)
(***************************************************************************)
\* C26: a delete of a restaurant removes from user_roles exactly the rows
\* whose restaurant_id is that restaurant and leaves every other row as it
\* was; in every state each grant's scope is null or an existing
\* restaurant; and after the delete a user has the admin role exactly when
\* one of their admin grants had another scope.
C26_ScopedGrantsCascade ==
    /\ [](\A g \in DOMAIN user_roles :
            user_roles[g].restaurant_id = Null
            \/ user_roles[g].restaurant_id \in DOMAIN restaurants)
    /\ [][ (/\ last'.op = "delete"
            /\ last'.table = "restaurants"
            /\ last'.rows = {last'.id})
           => LET kept == {g \in DOMAIN user_roles :
                              user_roles[g].restaurant_id # last'.id}
              IN  /\ DOMAIN user_roles' = kept
                  /\ \A g \in kept : user_roles'[g] = user_roles[g]
                  /\ \A u \in Users :
                        has_role(DB', u, "admin")
                        <=> \E g \in kept : /\ user_roles[g].user_id = u
                                            /\ user_roles[g].role = "admin" ]_vars

\* r1 has been deleted, and with it the scoped grant g2; the global grants
\* g1 and g3 are still there, and u2 does not have the admin role
C26_Witness ==
    /\ last.op = "delete"
    /\ last.table = "restaurants"
    /\ last.rows = {"r1"}
    /\ "g2" \in last.gone
    /\ DOMAIN user_roles = {"g1", "g3"}
    /\ user_roles["g3"] = [user_id |-> "u2", role |-> "user", restaurant_id |-> Null]
    /\ ~has_role(DB, "u2", "admin")

(***************************************************************************)
(* The restaurant Select of MenuItemsAdmin.  A change of                   *)
(* selectedRestaurant runs the effect, which starts fetchCategories and    *)
(* fetchMenuItems for the new restaurant; each request settles in a later  *)
(* step, in any order, and sets the state from its own answer.             *)
(***************************************************************************)
\* onValueChange={setSelectedRestaurant}, and the effect on [selectedRestaurant]
setSelectedRestaurant(u, r) ==
    /\ admin[u].tab = "menu_items"
    /\ admin[u].pc = "idle"
    /\ r # admin[u].selectedRestaurant
    /\ admin' = [admin EXCEPT ![u].selectedRestaurant = r,
                              ![u].inflight =
                                  @ \cup {[fn |-> "fetchCategories", restaurantId |-> r],
                                          [fn |-> "fetchMenuItems", restaurantId |-> r]}]
    /\ last' = NoRequest
    /\ UNCHANGED <<tables, now, objects, publicVars>>

\* a request of fetchCategories(restaurantId) or fetchMenuItems(restaurantId)
\* is answered, and the function sets categories or menuItems from the data
fetchSettled(u, req) ==
    /\ req \in admin[u].inflight
    /\ IF req.fn = "fetchCategories"
       THEN LET rows == ActiveCategoriesOf(DB, u, req.restaurantId)
            IN  /\ Answered("select", u, "menu_categories", Null, NoVals,
                            Answer("ok", Ids(rows), DB))
                /\ admin' = [admin EXCEPT ![u].categories = rows,
                                          ![u].inflight = @ \ {req}]
       ELSE LET rows == Listed(DB, u, "menu_items", req.restaurantId)
            IN  /\ Answered("select", u, "menu_items", Null, NoVals,
                            Answer("ok", Ids(rows), DB))
                /\ admin' = [admin EXCEPT ![u].list = rows,
                                          ![u].inflight = @ \ {req}]
    /\ UNCHANGED publicVars

(***************************************************************************)
(* SpecSelect: two restaurants, each with a category and an item; an admin *)
(* has MenuItemsAdmin open and changes the selected restaurant.            *)
(***************************************************************************)
InitSelect ==
    /\ restaurants =
          ("r1" :> WithDefaults("restaurants",
                                [slug |-> "pizza-palace", name |-> "Pizza Palace"], 0))
          @@ ("r2" :> WithDefaults("restaurants",
                                   [slug |-> "kebab-hut", name |-> "Kebab Hut"], 0))
    /\ menu_categories =
          [c \in CategoryIds |->
              WithDefaults("menu_categories",
                           [restaurant_id |-> IF c = "c1" THEN "r1" ELSE "r2",
                            name |-> "Starters", display_order |-> 0], 0)]
    /\ menu_items =
          [i \in ItemIds |->
              WithDefaults("menu_items",
                           [category_id |-> IF i = "i1" THEN "c1" ELSE "c2",
                            name |-> "Garlic Bread", price |-> 14900,
                            image_url |-> Null], 0)]
    /\ user_roles = ("g1" :> [user_id |-> "u1", role |-> "admin", restaurant_id |-> Null])
    /\ now = 0
    /\ last = NoRequest
    /\ objects = << >>
    /\ PageInit

NextSelect ==
    \/ checkAdminAccess("u1")
    \/ Mount("u1", "menu_items")
    \/ fetchData("u1")
    \/ fetchMenuItems("u1")
    \/ \E r \in RestaurantIds : setSelectedRestaurant("u1", r)
    \/ \E req \in admin["u1"].inflight : fetchSettled("u1", req)

SpecSelect == InitSelect /\ [][NextSelect]_vars

(***************************************************************************)
(* Properties of the selected restaurant                                   *)
(***************************************************************************)
\* C27: in MenuItemsAdmin, once every request that a change of the selected
\* restaurant started has settled, the categories and the menu items shown
\* are those of the restaurant now selected, whatever the order in which
\* the requests settled.
C27_ShowsSelectedRestaurant ==
    \A u \in Users :
        (/\ admin[u].tab = "menu_items"
         /\ admin[u].pc = "idle"
         /\ admin[u].selectedRestaurant # ""
         /\ admin[u].inflight = {})
        => /\ admin[u].list = Listed(DB, u, "menu_items", admin[u].selectedRestaurant)
           /\ admin[u].categories
                 = ActiveCategoriesOf(DB, u, admin[u].selectedRestaurant)

(***************************************************************************)
(* Properties of the form while an upload is in flight                     *)
(***************************************************************************)
\* C28: when an upload settles, a successful one changes only image_url of
\* the form: every other field keeps the value it had just before, edits
\* made while the upload was in flight included; a failed one changes no
\* field of the form.
C28_UploadChangesOnlyUrl ==
    [][ \A u \in Users :
          (last'.op = "upload" /\ last'.caller = u)
          => IF last'.status = "ok"
             THEN \A k \in DOMAIN admin[u].formData \ {"image_url"} :
                     admin'[u].formData[k] = admin[u].formData[k]
             ELSE admin'[u].formData = admin[u].formData ]_vars

(***************************************************************************)
(* SpecForms: an admin edits the restaurant, the category and the item in  *)
(* the three admin components, while another admin hides and shows the     *)
(* same rows by direct calls of the store.                                 *)
(***************************************************************************)
NextForms ==
    \/ checkAdminAccess("u1")
    \/ \E t \in AdminTables : Mount("u1", t)
    \/ fetchData("u1")
    \/ fetchMenuItems("u1")
    \/ \E id \in {"r1", "c1", "i1"} : handleEdit("u1", id)
    \/ SetField("u1", "name", "Renamed")
    \/ handleSubmit("u1")
    \/ \E b \in BOOLEAN :
          \/ StoreUpdate("u2", "restaurants", "r1", [is_active |-> b])
          \/ StoreUpdate("u2", "menu_categories", "c1", [is_active |-> b])
          \/ StoreUpdate("u2", "menu_items", "i1", [is_available |-> b])

SpecForms == InitAdmin /\ [][NextForms]_vars

(***************************************************************************)
(* Properties of an update sent by an edit form                            *)
(***************************************************************************)
\* C29: an update that the edit form of RestaurantsAdmin, CategoriesAdmin or
\* MenuItemsAdmin sends supplies neither id nor the visibility flag
\* (is_active, is_available); in the row it changes, every column outside
\* the form other than updated_at keeps its value, the visibility flag in
\* particular, and the row keeps its id; every other row is unchanged.
C29_FormUpdateKeepsFlag ==
    [][ \A u \in Users :
          (/\ last'.op = "update"
           /\ last'.caller = u
           /\ last'.table = admin[u].tab
           /\ last'.id = admin[u].editing.id
           /\ last'.id \in DOMAIN DB[last'.table])
          => LET t == last'.table
                 id == last'.id
                 old == DB[t][id]
             IN  /\ DOMAIN last'.vals \cap {"id", "is_active", "is_available"} = {}
                 /\ id \in DOMAIN DB'[t]
                 /\ \A k \in DOMAIN old \ (DOMAIN last'.vals \cup {"updated_at"}) :
                       DB'[t][id][k] = old[k]
                 /\ VisibilityFlag(t, DB'[t][id]) = VisibilityFlag(t, old)
                 /\ \A o \in AdminTables :
                       /\ DOMAIN DB'[o] = DOMAIN DB[o]
                       /\ \A i \in DOMAIN DB[o] \ {id} : DB'[o][i] = DB[o][i] ]_vars

\* the form has renamed the category c1 while it was hidden
C29_Witness ==
    /\ last.op = "update"
    /\ last.caller = "u1"
    /\ last.table = "menu_categories"
    /\ last.rows = {"c1"}
    /\ menu_categories["c1"].name = "Renamed"
    /\ menu_categories["c1"].is_active = FALSE
    /\ admin["u1"].toast = Toast("success", "updated successfully")

(***************************************************************************)
(* SpecLoading: the public pages load, users open the Admin page (u2 after *)
(* their grant may have been revoked), and u1 opens the admin components   *)
(* and uploads files in MenuItemsAdmin.                                    *)
(***************************************************************************)
NextLoading ==
    \/ ListFetch
    \/ \E s \in {"pizza-palace", NoSuchSlug} : OpenMenu(s)
    \/ FetchRestaurant
    \/ FetchCategories
    \/ FetchItems
    \/ StoreDelete("u1", "user_roles", "g2")
    \/ \E u \in Users : checkAdminAccess(u)
    \/ \E t \in AdminTables : Mount("u1", t)
    \/ fetchData("u1")
    \/ fetchMenuItems("u1")
    \/ OpenAdd("u1")
    \/ \E file \in Files : handleFileUpload("u1", file)
    \/ uploadAnswered("u1")

SpecLoading == InitAdmin /\ [][NextLoading]_vars

(***************************************************************************)
(* Properties of the loading and uploading flags                           *)
(***************************************************************************)
\* C30: every loading routine ends its loading state.  When
\* fetchRestaurantData has ended, with the menu or with an error, loading
\* is false; the answer to Restaurants.fetchRestaurants leaves its loading
\* false; the answer to checkAdminAccess leaves the Admin page's loading
\* false, access granted or denied; an admin component's loading is true
\* only until its first fetchData / fetchRestaurants is answered.
\* uploading is true only for a file that passed the two checks in the
\* browser, and is false once the upload request is answered, accepted or
\* rejected.
C30_LoadingEnds ==
    /\ [](pc = "done" => ~loading)
    /\ [][ (/\ last'.op = "select" /\ last'.table = "restaurants"
            /\ last'.caller = Visitor /\ pc' = pc)
           => ~listLoading' ]_vars
    /\ [](\A u \in Users :
            /\ admin[u].isAdmin => ~admin[u].loading
            /\ (admin[u].tab \in AdminTables /\ admin[u].pc # "fetchData")
               => ~admin[u].tabLoading
            /\ admin[u].uploading
               => /\ startsWith(admin[u].upload.file.type, "image/")
                  /\ admin[u].upload.file.size <= 5 * 1024 * 1024)
    /\ [][ \A u \in Users :
             /\ (last'.op = "select" /\ last'.table = "user_roles" /\ last'.caller = u)
                => ~admin'[u].loading
             /\ (last'.op = "upload" /\ last'.caller = u) => ~admin'[u].uploading
             /\ (~admin[u].uploading /\ admin'[u].uploading) => last'.op = "none" ]_vars

\* every routine has ended, three of them on a failure: the menu of a slug
\* that does not exist, the Admin page of u2 without a grant, and an upload
\* that the bucket rejected
C30_Witness ==
    /\ pc = "done"
    /\ toast = "Failed to load menu"
    /\ ~loading
    /\ ~listLoading
    /\ admin["u2"].toast = Toast("error", "Access denied. Admin privileges required.")
    /\ ~admin["u2"].loading
    /\ admin["u1"].tab = "menu_items"
    /\ ~admin["u1"].tabLoading
    /\ last.op = "upload"
    /\ last.status = "bucket_error"
    /\ ~admin["u1"].uploading

====
